---------------------------- MODULE Spec2Model ----------------------------
(***************************************************************************)
(* A model of webrender's clip bounds computation                          *)
(* (webrender/src/clip.rs: ClipSources, MaskBounds) and of wrench's        *)
(* RON frame recorder (wrench/src/ron_frame_writer.rs: RonFrameWriter).    *)
(*                                                                         *)
(* Coordinates are integers: every operation of the code on them           *)
(* (comparison, min, max, sum, difference) is exact on the values used.    *)
(* Option<T> is a sequence of length at most one: None is << >> and        *)
(* Some(v) is << v >>.                                                     *)
(***************************************************************************)
EXTENDS Integers, Sequences, FiniteSets

VARIABLES
    clips,                 \* ClipSources.clips
    bounds,                \* ClipSources.bounds
    region,                \* the ClipRegion the ClipSources was converted from, if any
    lastArgs,              \* (layer_transform, device_pixel_ratio) of the last update call
    ncalls,                \* number of update calls made so far
    trace,                 \* the collaborator calls made by the last update call, in order
    CURRENT_FRAME_NUMBER,  \* wrench's global frame number
    last_frame_written,    \* RonFrameWriter.last_frame_written
    dl_descriptor,         \* RonFrameWriter.dl_descriptor
    images,                \* RonFrameWriter.images
    fonts,                 \* RonFrameWriter.fonts
    files,                 \* the frame files on disk: frame number -> contents
    written_in_frame,      \* frame files written since CURRENT_FRAME_NUMBER last changed
    accepted,              \* Some(b) while a descriptor is held: b says the message that
                           \* brought it found CURRENT_FRAME_NUMBER # last_frame_written
    stale_write,           \* a frame file was written from no such descriptor
    panicked               \* an unwrap() of None was reached

clipVars == <<clips, bounds, region, lastArgs, ncalls, trace>>

ronVars == <<CURRENT_FRAME_NUMBER, last_frame_written, dl_descriptor, images, fonts,
             files, written_in_frame, accepted, stale_write, panicked>>

vars == <<clips, bounds, region, lastArgs, ncalls, trace,
          CURRENT_FRAME_NUMBER, last_frame_written, dl_descriptor, images, fonts,
          files, written_in_frame, accepted, stale_write, panicked>>

-----------------------------------------------------------------------------
(* Option<T> *)

None == << >>

Some(v) == << v >>

is_some(o) == Len(o) = 1

is_none(o) == Len(o) = 0

unwrap(o) == o[1]

unwrap_or(o, d) == IF is_some(o) THEN o[1] ELSE d

-----------------------------------------------------------------------------
(* Rectangles: an origin and a size, as euclid's TypedRect *)

Rect(x, y, w, h) == [x |-> x, y |-> y, w |-> w, h |-> h]

Rect_zero == Rect(0, 0, 0, 0)

max_x(r) == r.x + r.w

max_y(r) == r.y + r.h

Min(a, b) == IF a <= b THEN a ELSE b

Max(a, b) == IF a >= b THEN a ELSE b

intersects(a, b) ==
    /\ a.x < max_x(b)
    /\ b.x < max_x(a)
    /\ a.y < max_y(b)
    /\ b.y < max_y(a)

intersection(a, b) ==
    IF ~intersects(a, b)
    THEN None
    ELSE LET ux == Max(a.x, b.x)
             uy == Max(a.y, b.y)
             lx == Min(max_x(a), max_x(b))
             ly == Min(max_y(a), max_y(b))
         IN  Some(Rect(ux, uy, lx - ux, ly - uy))

MAX_CLIP == 1000000


-----------------------------------------------------------------------------
(* Inner-rect extraction (util::extract_inner_rect_safe): each edge is     *)
(* inset by the largest radius component that touches it; nothing is       *)
(* returned when the result has zero or negative extent.                   *)

Size(w, h) == [width |-> w, height |-> h]

BorderRadius(tl, tr, bl, br) ==
    [top_left |-> tl, top_right |-> tr, bottom_left |-> bl, bottom_right |-> br]

extract_inner_rect_safe(rect, radii) ==
    LET xl == Max(radii.top_left.width, radii.bottom_left.width)
        xr == rect.w - Max(radii.top_right.width, radii.bottom_right.width)
        yt == Max(radii.top_left.height, radii.top_right.height)
        yb == rect.h - Max(radii.bottom_left.height, radii.bottom_right.height)
    IN  IF xl < xr /\ yt < yb
        THEN Some(Rect(rect.x + xl, rect.y + yt, xr - xl, yb - yt))
        ELSE None

-----------------------------------------------------------------------------
(* Geometry projection (util::TransformedRect::new): the four corners of   *)
(* the local rectangle are transformed; bounding_rect is their bounding    *)
(* box and inner_rect is spanned by the two middle coordinates on each     *)
(* axis, both scaled by the device pixel ratio.  For a translation and     *)
(* positive scale the two are the same rectangle; under a skew inner_rect  *)
(* shrinks.  A transform is the 2D affine map                              *)
(*     (x, y) |-> (m11*x + m21*y + m41, m12*x + m22*y + m42).              *)

Transform(m11, m12, m21, m22, m41, m42) ==
    [m11 |-> m11, m12 |-> m12, m21 |-> m21, m22 |-> m22, m41 |-> m41, m42 |-> m42]

transform_x(t, x, y) == t.m11 * x + t.m21 * y + t.m41

transform_y(t, x, y) == t.m12 * x + t.m22 * y + t.m42

Min4(s) == Min(Min(s[1], s[2]), Min(s[3], s[4]))

Max4(s) == Max(Max(s[1], s[2]), Max(s[3], s[4]))

\* the second smallest of four values
Second4(s) ==
    Min(Min(Min(Max(s[1], s[2]), Max(s[1], s[3])), Min(Max(s[1], s[4]), Max(s[2], s[3]))),
        Min(Max(s[2], s[4]), Max(s[3], s[4])))

\* the third smallest of four values
Third4(s) ==
    Max(Max(Max(Min(s[1], s[2]), Min(s[1], s[3])), Max(Min(s[1], s[4]), Min(s[2], s[3]))),
        Max(Min(s[2], s[4]), Min(s[3], s[4])))

TransformedRect_new(rect, transform, device_pixel_ratio) ==
    LET xs == << transform_x(transform, rect.x, rect.y),
                 transform_x(transform, max_x(rect), rect.y),
                 transform_x(transform, rect.x, max_y(rect)),
                 transform_x(transform, max_x(rect), max_y(rect)) >>
        ys == << transform_y(transform, rect.x, rect.y),
                 transform_y(transform, max_x(rect), rect.y),
                 transform_y(transform, rect.x, max_y(rect)),
                 transform_y(transform, max_x(rect), max_y(rect)) >>
        k  == device_pixel_ratio
    IN  [ bounding_rect |-> Rect(Min4(xs) * k, Min4(ys) * k,
                                 (Max4(xs) - Min4(xs)) * k, (Max4(ys) - Min4(ys)) * k),
          inner_rect    |-> Rect(Second4(xs) * k, Second4(ys) * k,
                                 (Third4(xs) - Second4(xs)) * k,
                                 (Third4(ys) - Second4(ys)) * k) ]

-----------------------------------------------------------------------------
(* Clip sources *)

Clip == "Clip"

ClipOut == "ClipOut"

ImageMask(image, rect, repeat) == [image |-> image, rect |-> rect, repeat |-> repeat]

Rectangle(rect) == [kind |-> "Rectangle", rect |-> rect]

RoundedRectangle(rect, radii, mode) ==
    [kind |-> "RoundedRectangle", rect |-> rect, radii |-> radii, mode |-> mode]

Image(mask) == [kind |-> "Image", mask |-> mask]

BorderCorner == [kind |-> "BorderCorner"]

ComplexClipRegion(rect, radii) == [rect |-> rect, radii |-> radii]

ClipRegion(main, image_mask, complex_clips) ==
    [main |-> main, image_mask |-> image_mask, complex_clips |-> complex_clips]

Geometry_from(local_rect) == [local_rect |-> local_rect, device_rect |-> Rect_zero]

MaskBounds(outer, inner) == [outer |-> outer, inner |-> inner]

\* ClipSources::new: the clips as given, no bounds yet
ClipSources_new(cs) == [clips |-> cs, bounds |-> MaskBounds(None, None)]

RECURSIVE complex_sources(_)
complex_sources(complex_clips) ==
    IF complex_clips = << >>
    THEN << >>
    ELSE << RoundedRectangle(Head(complex_clips).rect, Head(complex_clips).radii, Clip) >>
         \o complex_sources(Tail(complex_clips))

\* From<ClipRegion>, but the image mask is pushed after the main rectangle
ClipSources_from_ImageSecond(r) ==
    ClipSources_new(
        << Rectangle(r.main) >>
        \o (IF is_some(r.image_mask) THEN << Image(unwrap(r.image_mask)) >> ELSE << >>)
        \o complex_sources(r.complex_clips))

\* impl From<ClipRegion> for ClipSources
ClipSources_from(r) ==
    ClipSources_new(
        (IF is_some(r.image_mask) THEN << Image(unwrap(r.image_mask)) >> ELSE << >>)
        \o << Rectangle(r.main) >>
        \o complex_sources(r.complex_clips))

-----------------------------------------------------------------------------
(* ClipSources::update: the local bounds (first call only) *)

and_then(o, F(_)) == IF is_some(o) THEN F(unwrap(o)) ELSE None

MaxRect == Rect(-MAX_CLIP, -MAX_CLIP, 2 * MAX_CLIP, 2 * MAX_CLIP)

\* the locals of update before the loop over the sources
LoopStart ==
    [ local_rect      |-> Some(MaxRect),
      local_inner     |-> Some(MaxRect),
      has_clip_out    |-> FALSE,
      has_border_clip |-> FALSE ]

\* ImageArm, but the inner accumulator survives an image mask
ImageArm_KeepsInner(acc, mask) ==
    [ acc EXCEPT
        !.local_rect  = IF ~mask.repeat
                        THEN and_then(@, LAMBDA r : intersection(r, mask.rect))
                        ELSE @ ]

\* ClipSource::Image(ref mask) => ...
ImageArm(acc, mask) ==
    [ acc EXCEPT
        !.local_rect  = IF ~mask.repeat
                        THEN and_then(@, LAMBDA r : intersection(r, mask.rect))
                        ELSE @,
        !.local_inner = None ]

\* RectangleArm, but the outer accumulator is not intersected
RectangleArm_SkipsOuter(acc, rect) ==
    [ acc EXCEPT
        !.local_inner = and_then(@, LAMBDA r : intersection(r, rect)) ]

\* RectangleArm, but the inner accumulator is not intersected
RectangleArm_SkipsInner(acc, rect) ==
    [ acc EXCEPT
        !.local_rect  = and_then(@, LAMBDA r : intersection(r, rect)) ]

\* ClipSource::Rectangle(rect) => ...
RectangleArm(acc, rect) ==
    [ acc EXCEPT
        !.local_rect  = and_then(@, LAMBDA r : intersection(r, rect)),
        !.local_inner = and_then(@, LAMBDA r : intersection(r, rect)) ]

\* ClipSource::RoundedRectangle(ref rect, ref radius, mode) => ..., mode is Clip
RoundedRectangleArm(acc, rect, radius) ==
    LET inner_rect == extract_inner_rect_safe(rect, radius)
    IN  [ acc EXCEPT
            !.local_rect  = and_then(@, LAMBDA r : intersection(r, rect)),
            !.local_inner = and_then(@, LAMBDA r :
                                and_then(inner_rect, LAMBDA inner : intersection(r, inner))) ]

\* BorderCornerArm, but the border clip is not recorded
BorderCornerArm_Ignored(acc) == acc

\* ClipSource::BorderCorner{..} => ...
BorderCornerArm(acc) == [acc EXCEPT !.has_border_clip = TRUE]

\* for source in &self.clips { match *source { ... } }, from the i-th source on;
\* a ClipOut rounded rectangle sets has_clip_out and breaks out of the loop
RECURSIVE SourceLoop(_, _, _)
SourceLoop(cs, i, acc) ==
    IF i > Len(cs)
    THEN acc
    ELSE LET source == cs[i]
         IN  CASE source.kind = "Image" ->
                    SourceLoop(cs, i + 1, ImageArm(acc, source.mask))
               [] source.kind = "Rectangle" ->
                    SourceLoop(cs, i + 1, RectangleArm(acc, source.rect))
               [] source.kind = "RoundedRectangle" ->
                    IF source.mode = ClipOut
                    THEN [acc EXCEPT !.has_clip_out = TRUE]
                    ELSE SourceLoop(cs, i + 1,
                                    RoundedRectangleArm(acc, source.rect, source.radii))
               [] source.kind = "BorderCorner" ->
                    SourceLoop(cs, i + 1, BorderCornerArm(acc))

\* self.bounds = if has_clip_out || has_border_clip { ... } else { ... }
MaskGeometry(acc) ==
    IF acc.has_clip_out \/ acc.has_border_clip
    THEN MaskBounds(None, Some(Geometry_from(Rect_zero)))
    ELSE MaskBounds(Some(Geometry_from(unwrap_or(acc.local_rect, Rect_zero))),
                    Some(Geometry_from(unwrap_or(acc.local_inner, Rect_zero))))

\* if self.bounds.inner.is_none() { ... }
LocalBounds(cs, b) ==
    IF is_none(b.inner)
    THEN MaskGeometry(SourceLoop(cs, 1, LoopStart))
    ELSE b

\* MaskBounds::update, but the projection is stored over the local rectangle
MaskBounds_update_ClobbersLocal(b, transform, device_pixel_ratio) ==
    [ outer |-> IF is_some(b.outer)
                THEN Some([ unwrap(b.outer) EXCEPT !.local_rect =
                              TransformedRect_new(unwrap(b.outer).local_rect, transform,
                                                  device_pixel_ratio).bounding_rect ])
                ELSE None,
      inner |-> IF is_some(b.inner)
                THEN Some([ unwrap(b.inner) EXCEPT !.local_rect =
                              TransformedRect_new(unwrap(b.inner).local_rect, transform,
                                                  device_pixel_ratio).inner_rect ])
                ELSE None ]

\* MaskBounds::update, but the projection is taken of the previous device rectangle
MaskBounds_update_FromDevice(b, transform, device_pixel_ratio) ==
    [ outer |-> IF is_some(b.outer)
                THEN Some([ unwrap(b.outer) EXCEPT !.device_rect =
                              TransformedRect_new(unwrap(b.outer).device_rect, transform,
                                                  device_pixel_ratio).bounding_rect ])
                ELSE None,
      inner |-> IF is_some(b.inner)
                THEN Some([ unwrap(b.inner) EXCEPT !.device_rect =
                              TransformedRect_new(unwrap(b.inner).device_rect, transform,
                                                  device_pixel_ratio).inner_rect ])
                ELSE None ]

\* MaskBounds::update, but inner takes the projection's bounding rectangle too
MaskBounds_update_InnerBounding(b, transform, device_pixel_ratio) ==
    [ outer |-> IF is_some(b.outer)
                THEN Some([ unwrap(b.outer) EXCEPT !.device_rect =
                              TransformedRect_new(unwrap(b.outer).local_rect, transform,
                                                  device_pixel_ratio).bounding_rect ])
                ELSE None,
      inner |-> IF is_some(b.inner)
                THEN Some([ unwrap(b.inner) EXCEPT !.device_rect =
                              TransformedRect_new(unwrap(b.inner).local_rect, transform,
                                                  device_pixel_ratio).bounding_rect ])
                ELSE None ]

\* MaskBounds::update
MaskBounds_update(b, transform, device_pixel_ratio) ==
    [ outer |-> IF is_some(b.outer)
                THEN Some([ unwrap(b.outer) EXCEPT !.device_rect =
                              TransformedRect_new(unwrap(b.outer).local_rect, transform,
                                                  device_pixel_ratio).bounding_rect ])
                ELSE None,
      inner |-> IF is_some(b.inner)
                THEN Some([ unwrap(b.inner) EXCEPT !.device_rect =
                              TransformedRect_new(unwrap(b.inner).local_rect, transform,
                                                  device_pixel_ratio).inner_rect ])
                ELSE None ]

\* the bounds ClipSources::update leaves
UpdatedBounds(cs, b, transform, device_pixel_ratio) ==
    IF cs = << >>
    THEN b
    ELSE MaskBounds_update(LocalBounds(cs, b), transform, device_pixel_ratio)

(* The collaborator calls of one update, in order *)

BoundsUpdateCall == [call |-> "MaskBounds::update"]

MaskCacheUpdateCall(cs) == [call |-> "MaskCacheInfo::update", clips |-> cs]

RequestImageCall(image) ==
    [call |-> "ResourceCache::request_image", image |-> image,
     rendering |-> "Auto", tile |-> None]

\* ImageRequests, but the requests are issued last source first
RECURSIVE ImageRequests_Reversed(_)
ImageRequests_Reversed(cs) ==
    IF cs = << >>
    THEN << >>
    ELSE ImageRequests_Reversed(Tail(cs))
         \o (IF Head(cs).kind = "Image"
             THEN << RequestImageCall(Head(cs).mask.image) >>
             ELSE << >>)

\* for clip in &self.clips { if let ClipSource::Image(ref mask) = *clip { ... } }
RECURSIVE ImageRequests(_)
ImageRequests(cs) ==
    IF cs = << >>
    THEN << >>
    ELSE (IF Head(cs).kind = "Image"
          THEN << RequestImageCall(Head(cs).mask.image) >>
          ELSE << >>)
         \o ImageRequests(Tail(cs))

UpdateCalls(cs) ==
    IF cs = << >>
    THEN << >>
    ELSE << BoundsUpdateCall, MaskCacheUpdateCall(cs) >> \o ImageRequests(cs)

-----------------------------------------------------------------------------
(* Inputs of the clip model *)

MaxClips == 2

MaxComplex == 2

MaxUpdates == 2

\* overlapping, touching, degenerate and out-of-range rectangles
Rects ==
    { Rect(0, 0, 2, 2), Rect(1, 1, 2, 2), Rect(2, 0, 1, 2), Rect(1, 0, 0, 2),
      Rect(0, 0, 2 * MAX_CLIP, 2 * MAX_CLIP) }

Radii ==
    { BorderRadius(Size(1, 1), Size(1, 1), Size(1, 1), Size(1, 1)),
      BorderRadius(Size(1, 1), Size(0, 0), Size(0, 0), Size(0, 0)) }

ImageKeys == {1, 2}

ImageRects == { Rect(1, 1, 2, 2), Rect(2, 0, 1, 2), Rect(0, 0, 2 * MAX_CLIP, 2 * MAX_CLIP) }

ImageMasks == { ImageMask(k, r, rep) : k \in ImageKeys, r \in ImageRects, rep \in BOOLEAN }

ClipSourceSet ==
    { Rectangle(r) : r \in Rects }
    \cup { RoundedRectangle(r, rad, Clip) : r \in Rects, rad \in Radii }
    \cup { RoundedRectangle(r, rad, ClipOut) : r \in {Rect(0, 0, 2, 2)}, rad \in Radii }
    \cup { Image(m) : m \in ImageMasks }
    \cup { BorderCorner }

SeqsUpTo(S, n) == UNION { [1..k -> S] : k \in 0..n }

ComplexRects == { Rect(0, 0, 2, 2), Rect(1, 1, 2, 2) }

ClipRegions ==
    { ClipRegion(main, mask, complex) :
        main \in Rects,
        mask \in {None} \cup { Some(m) : m \in ImageMasks },
        complex \in SeqsUpTo({ ComplexClipRegion(r, rad) : r \in ComplexRects, rad \in Radii },
                             MaxComplex) }

Identity == Transform(1, 0, 0, 1, 0, 0)

\* scale by 2, then translate by (1, 0)
ScaleTranslate == Transform(2, 0, 0, 2, 1, 0)

\* x' = x + y, y' = y
Skew == Transform(1, 0, 1, 1, 0, 0)

\* the (layer_transform, device_pixel_ratio) pairs update is called with
UpdateArgs == { <<Identity, 1>>, <<ScaleTranslate, 2>>, <<Skew, 1>> }

-----------------------------------------------------------------------------
(* Inputs of the recorder model *)

\* frame numbers are 0..FrameMax; FrameMax stands for u32::max_value()
FrameMax == 2

Frames == 0..FrameMax

Descriptors == {"dl_a", "dl_b"}

RecImageKeys == {"img"}

FontKeys == {"font"}

ImageDescriptor(width) == [width |-> width, height |-> 1, format |-> "BGRA8"]

Raw(bytes) == [data |-> "Raw", bytes |-> bytes]

External == [data |-> "External"]

AddImage(descriptor, data) ==
    [op |-> "AddImage", key |-> "img", descriptor |-> descriptor, data |-> data]

UpdateImage(descriptor, data) ==
    [op |-> "UpdateImage", key |-> "img", descriptor |-> descriptor, data |-> data]

DeleteImage == [op |-> "DeleteImage", key |-> "img"]

AddFont == [op |-> "AddFont", key |-> "font", font |-> "Raw"]

DeleteFont == [op |-> "DeleteFont"]

\* the ResourceUpdates a message carries: none, one update, or an external image
\* followed by a font
ResourceUpdateLists ==
    { << >>,
      << AddImage(ImageDescriptor(1), Raw("b1")) >>,
      << AddImage(ImageDescriptor(1), External) >>,
      << UpdateImage(ImageDescriptor(1), Raw("b2")) >>,
      << UpdateImage(ImageDescriptor(2), Raw("b2")) >>,
      << DeleteImage >>,
      << AddFont >>,
      << DeleteFont >>,
      << AddImage(ImageDescriptor(1), External), AddFont >> }

-----------------------------------------------------------------------------
(* The clip model: a ClipSources is constructed, then updated every frame *)

RecorderStart ==
    /\ CURRENT_FRAME_NUMBER = 0
    /\ last_frame_written = FrameMax
    /\ dl_descriptor = None
    /\ images = [k \in RecImageKeys |-> None]
    /\ fonts = [k \in FontKeys |-> None]
    /\ files = [f \in Frames |-> None]
    /\ written_in_frame = 0
    /\ accepted = None
    /\ stale_write = FALSE
    /\ panicked = None

Constructed(sources, from) ==
    /\ clips = sources.clips
    /\ bounds = sources.bounds
    /\ region = from
    /\ lastArgs = None
    /\ ncalls = 0
    /\ trace = << >>

Init ==
    /\ \/ \E cs \in SeqsUpTo(ClipSourceSet, MaxClips) :
            Constructed(ClipSources_new(cs), None)
       \/ \E r \in ClipRegions :
            Constructed(ClipSources_from(r), Some(r))
    /\ RecorderStart

\* ClipSources::update(layer_transform, gpu_cache, resource_cache, device_pixel_ratio)
Update(layer_transform, device_pixel_ratio) ==
    /\ ncalls < MaxUpdates
    /\ bounds' = UpdatedBounds(clips, bounds, layer_transform, device_pixel_ratio)
    /\ trace' = UpdateCalls(clips)
    /\ lastArgs' = Some([layer_transform |-> layer_transform,
                         device_pixel_ratio |-> device_pixel_ratio])
    /\ ncalls' = ncalls + 1
    /\ UNCHANGED <<clips, region>>
    /\ UNCHANGED ronVars

Next == \E a \in UpdateArgs : Update(a[1], a[2])

Spec == Init /\ [][Next]_vars

-----------------------------------------------------------------------------
(* The recorder model: RonFrameWriter receives messages and payloads from  *)
(* the render backend while wrench's main loop sets CURRENT_FRAME_NUMBER.  *)

CachedImage(descriptor, bytes) ==
    [width |-> descriptor.width, height |-> descriptor.height,
     format |-> descriptor.format, bytes |-> Some(bytes), path |-> None]

\* one ResourceUpdate of update_resources' loop, on st = [images, fonts, panicked, returned]
ApplyResourceUpdate(st, u) ==
    CASE u.op = "AddImage" ->
            IF u.data.data = "Raw"
            THEN [st EXCEPT !.images[u.key] = Some(CachedImage(u.descriptor, u.data.bytes))]
            ELSE [st EXCEPT !.returned = TRUE]
      [] u.op = "UpdateImage" ->
            IF is_none(st.images[u.key])
            THEN st
            ELSE LET data == unwrap(st.images[u.key])
                 IN  IF \/ data.width # u.descriptor.width
                        \/ data.height # u.descriptor.height
                        \/ data.format # u.descriptor.format
                     THEN [st EXCEPT !.panicked = Some("assert_eq")]
                     ELSE IF u.data.data = "Raw"
                          THEN [st EXCEPT !.images[u.key] =
                                    Some([data EXCEPT !.path = None,
                                                      !.bytes = Some(u.data.bytes)])]
                          ELSE st
      [] u.op = "DeleteImage" ->
            [st EXCEPT !.images[u.key] = None]
      [] u.op = "AddFont" ->
            [st EXCEPT !.fonts[u.key] = Some(u.font)]
      [] OTHER -> st

\* RonFrameWriter::update_resources
RECURSIVE update_resources(_, _)
update_resources(st, updates) ==
    IF updates = << >> \/ st.returned \/ is_some(st.panicked)
    THEN st
    ELSE update_resources(ApplyResourceUpdate(st, Head(updates)), Tail(updates))

ResourcesAfter(updates) ==
    update_resources([images |-> images, fonts |-> fonts, panicked |-> None,
                      returned |-> FALSE], updates)

\* wrench's main loop stores the number of the frame being shown
SetFrame(n) ==
    /\ is_none(panicked)
    /\ n # CURRENT_FRAME_NUMBER
    /\ CURRENT_FRAME_NUMBER' = n
    /\ written_in_frame' = 0
    /\ UNCHANGED <<last_frame_written, dl_descriptor, images, fonts, files, accepted,
                   stale_write, panicked>>
    /\ UNCHANGED clipVars

\* write_msg(ApiMsg::UpdateResources(updates))
WriteMsgUpdateResources(updates) ==
    /\ is_none(panicked)
    /\ LET st == ResourcesAfter(updates)
       IN  /\ images' = st.images
           /\ fonts' = st.fonts
           /\ panicked' = st.panicked
    /\ UNCHANGED <<CURRENT_FRAME_NUMBER, last_frame_written, dl_descriptor, files,
                   written_in_frame, accepted, stale_write>>
    /\ UNCHANGED clipVars

\* begin_write_display_list: the two reads of CURRENT_FRAME_NUMBER race with the
\* main loop's store, so the second read sees the first value or a newer one
begin_write_display_list(display_list, second_read) ==
    IF CURRENT_FRAME_NUMBER = last_frame_written
    THEN UNCHANGED <<CURRENT_FRAME_NUMBER, last_frame_written, dl_descriptor,
                     written_in_frame, accepted>>
    ELSE /\ CURRENT_FRAME_NUMBER' = second_read
         /\ accepted' = Some(CURRENT_FRAME_NUMBER # last_frame_written)
         /\ written_in_frame' = IF second_read = CURRENT_FRAME_NUMBER
                                THEN written_in_frame ELSE 0
         /\ last_frame_written' = second_read
         /\ dl_descriptor' = Some(display_list)

\* write_msg(ApiMsg::UpdateDocument(_, DocumentMsg::SetDisplayList { .. }))
WriteMsgSetDisplayList(list_descriptor, resources, second_read) ==
    /\ is_none(panicked)
    /\ LET st == ResourcesAfter(resources)
       IN  /\ images' = st.images
           /\ fonts' = st.fonts
           /\ panicked' = st.panicked
           /\ IF is_some(st.panicked)
              THEN UNCHANGED <<CURRENT_FRAME_NUMBER, last_frame_written, dl_descriptor,
                               written_in_frame, accepted>>
              ELSE begin_write_display_list(list_descriptor, second_read)
    /\ UNCHANGED <<files, stale_write>>
    /\ UNCHANGED clipVars

\* write_msg of any other message
WriteMsgOther ==
    /\ is_none(panicked)
    /\ UNCHANGED vars

\* finish_write_display_list: take().unwrap() the descriptor, write frame-<n>.ron
finish_write_display_list ==
    IF is_none(dl_descriptor)
    THEN /\ panicked' = Some("unwrap")
         /\ UNCHANGED <<dl_descriptor, files, written_in_frame, accepted, stale_write>>
    ELSE /\ dl_descriptor' = None
         /\ files' = [files EXCEPT ![CURRENT_FRAME_NUMBER] = dl_descriptor]
         /\ written_in_frame' = written_in_frame + 1
         /\ accepted' = None
         /\ stale_write' = (stale_write \/ accepted # Some(TRUE))
         /\ UNCHANGED panicked

\* write_payload(frame, data)
WritePayload ==
    /\ is_none(panicked)
    /\ IF is_some(dl_descriptor)
       THEN finish_write_display_list
       ELSE UNCHANGED <<dl_descriptor, files, written_in_frame, accepted, stale_write,
                        panicked>>
    /\ UNCHANGED <<CURRENT_FRAME_NUMBER, last_frame_written, images, fonts>>
    /\ UNCHANGED clipVars

RecorderInit ==
    /\ Constructed(ClipSources_new(<< >>), None)
    /\ RecorderStart

RecorderNext ==
    \/ \E n \in Frames : SetFrame(n)
    \/ \E u \in ResourceUpdateLists : WriteMsgUpdateResources(u)
    \/ \E d \in Descriptors, u \in ResourceUpdateLists, n \in Frames :
            WriteMsgSetDisplayList(d, u, n)
    \/ WriteMsgOther
    \/ WritePayload

RecorderSpec == RecorderInit /\ [][RecorderNext]_vars

-----------------------------------------------------------------------------
(* Properties of the clip model *)

Outer == unwrap(bounds.outer)

Inner == unwrap(bounds.inner)

Sources == { clips[i] : i \in 1..Len(clips) }

IsClipOut(s) == s.kind = "RoundedRectangle" /\ s.mode = ClipOut

IsClipRect(s) == s.kind = "Rectangle" \/ (s.kind = "RoundedRectangle" /\ s.mode = Clip)

IsImage(s) == s.kind = "Image"

HasFallback == \E s \in Sources : IsClipOut(s) \/ s.kind = "BorderCorner"

\* a rectangle that holds no point
IsEmptyRect(r) == r.w <= 0 \/ r.h <= 0

ZeroArea(r) == r.w = 0 \/ r.h = 0

\* the same set of points
SameRegion(a, b) == a = b \/ (IsEmptyRect(a) /\ IsEmptyRect(b))

\* b lies within a
contains_rect(a, b) ==
    \/ IsEmptyRect(b)
    \/ /\ a.x <= b.x
       /\ a.y <= b.y
       /\ max_x(b) <= max_x(a)
       /\ max_y(b) <= max_y(a)

MaxOf(S) == CHOOSE m \in S : \A x \in S : x <= m

MinOf(S) == CHOOSE m \in S : \A x \in S : m <= x

\* the intersection of a non-empty set of rectangles, coordinate by coordinate
CommonRect(S) ==
    LET x0 == MaxOf({ r.x : r \in S })
        y0 == MaxOf({ r.y : r \in S })
        x1 == MinOf({ max_x(r) : r \in S })
        y1 == MinOf({ max_y(r) : r \in S })
    IN  Rect(x0, y0, x1 - x0, y1 - y0)

\* the rectangles of the sources that bound the visible region
ConstrainingRects ==
    { s.rect : s \in { t \in Sources : IsClipRect(t) } }
    \cup { s.mask.rect : s \in { t \in Sources : IsImage(t) /\ ~t.mask.repeat } }

(* C1, as stated: for a non-empty source list of Rectangle and Clip-mode   *)
(* RoundedRectangle sources only, after update outer is present and its    *)
(* local rectangle is the intersection of the sources' rectangles.         *)
C1_OuterIsIntersectionOfSources ==
    (ncalls > 0 /\ clips # << >> /\ \A s \in Sources : IsClipRect(s))
        => /\ is_some(bounds.outer)
           /\ SameRegion(Outer.local_rect, CommonRect(ConstrainingRects))

(* C1, amended: ... its local rectangle is the intersection of the         *)
(* sources' rectangles and the rectangle [-MAX_CLIP, MAX_CLIP] x           *)
(* [-MAX_CLIP, MAX_CLIP] the accumulation starts from.                     *)
C1_OuterIsClampedIntersection ==
    (ncalls > 0 /\ clips # << >> /\ \A s \in Sources : IsClipRect(s))
        => /\ is_some(bounds.outer)
           /\ SameRegion(Outer.local_rect, CommonRect(ConstrainingRects \cup {MaxRect}))

C1_Witness ==
    /\ ncalls > 0
    /\ Len(clips) = 2
    /\ clips[1].kind = "Rectangle"
    /\ IsClipRect(clips[2]) /\ clips[2].kind = "RoundedRectangle"
    /\ is_some(bounds.outer)
    /\ Outer.local_rect = Rect(1, 1, 1, 1)

(* C2: a ClipOut-mode RoundedRectangle or a BorderCorner anywhere in the   *)
(* list leaves, after update, outer absent and inner present with a        *)
(* zero-area local rectangle.                                              *)
C2_FallbackBounds ==
    (ncalls > 0 /\ HasFallback)
        => /\ is_none(bounds.outer)
           /\ is_some(bounds.inner)
           /\ ZeroArea(Inner.local_rect)

C2_Witness ==
    /\ ncalls > 0
    /\ Len(clips) = 2
    /\ clips[1].kind = "Rectangle"
    /\ IsClipOut(clips[2])
    /\ is_none(bounds.outer)

(* C3: whenever outer and inner are both present, the inner local          *)
(* rectangle lies within the outer local rectangle.                        *)
C3_InnerWithinOuter ==
    (is_some(bounds.outer) /\ is_some(bounds.inner))
        => contains_rect(Outer.local_rect, Inner.local_rect)

C3_Witness ==
    /\ ncalls > 0
    /\ is_some(bounds.outer)
    /\ is_some(bounds.inner)
    /\ ~IsEmptyRect(Inner.local_rect)
    /\ Inner.local_rect # Outer.local_rect

\* which of outer and inner are present, and their local rectangles
LocalPart(b) ==
    [ outer |-> IF is_some(b.outer) THEN Some(unwrap(b.outer).local_rect) ELSE None,
      inner |-> IF is_some(b.inner) THEN Some(unwrap(b.inner).local_rect) ELSE None ]

(* C4: once update has been called on a non-empty source list, no later    *)
(* update call changes which of outer and inner are present or their       *)
(* local rectangles, whatever transform and pixel ratio it is given.       *)
C4_LocalBoundsComputedOnce ==
    [][ (ncalls > 0 /\ clips # << >>) => LocalPart(bounds') = LocalPart(bounds) ]_vars

C4_Witness ==
    /\ ncalls = 2
    /\ is_some(bounds.outer)
    /\ is_some(bounds.inner)
    /\ ~IsEmptyRect(Outer.local_rect)
    /\ Outer.device_rect # Outer.local_rect

(* C5: an update call with the transform and pixel ratio of the call       *)
(* before it leaves bounds, local and device rectangles, as they were.     *)
C5_UpdateIdempotent ==
    [][ (ncalls' = ncalls + 1 /\ lastArgs' = lastArgs) => bounds' = bounds ]_vars

C5_Witness ==
    /\ ncalls = 2
    /\ lastArgs = Some([layer_transform |-> ScaleTranslate, device_pixel_ratio |-> 2])
    /\ is_some(bounds.outer)
    /\ Outer.device_rect # Rect_zero

(* C6: after an update call on a non-empty source list, the device         *)
(* rectangle of outer is the bounding rectangle, and that of inner the     *)
(* inner rectangle, of the projection of its local rectangle under the     *)
(* transform and pixel ratio of that call; an absent outer stays absent.   *)
C6_DeviceRectsOfLastCall ==
    (ncalls > 0 /\ clips # << >>)
        => LET a == unwrap(lastArgs)
           IN  /\ is_some(bounds.outer) =>
                    Outer.device_rect =
                        TransformedRect_new(Outer.local_rect, a.layer_transform,
                                            a.device_pixel_ratio).bounding_rect
               /\ is_some(bounds.inner) =>
                    Inner.device_rect =
                        TransformedRect_new(Inner.local_rect, a.layer_transform,
                                            a.device_pixel_ratio).inner_rect
               /\ HasFallback => is_none(bounds.outer)

C6_Witness ==
    /\ ncalls = 2
    /\ unwrap(lastArgs).layer_transform = Skew
    /\ is_some(bounds.outer)
    /\ is_some(bounds.inner)
    /\ ~IsEmptyRect(Outer.local_rect)
    /\ Outer.local_rect = Inner.local_rect
    /\ Outer.device_rect # Inner.device_rect

(* C7: the ClipSources converted from a ClipRegion with n rounded regions  *)
(* holds an Image source first exactly if the region has an image mask,    *)
(* then a Rectangle source with the main rectangle, then the n rounded     *)
(* regions as Clip-mode RoundedRectangle sources in the region's order;    *)
(* before the first update both outer and inner are absent.                *)
C7_SourcesOfRegion ==
    is_some(region)
        => LET r == unwrap(region)
               n == Len(r.complex_clips)
               k == IF is_some(r.image_mask) THEN 1 ELSE 0
           IN  /\ Len(clips) = k + 1 + n
               /\ k = 1 => clips[1] = [kind |-> "Image", mask |-> unwrap(r.image_mask)]
               /\ clips[k + 1] = [kind |-> "Rectangle", rect |-> r.main]
               /\ \A j \in 1..n :
                    clips[k + 1 + j] =
                        [kind |-> "RoundedRectangle", rect |-> r.complex_clips[j].rect,
                         radii |-> r.complex_clips[j].radii, mode |-> "Clip"]
               /\ ncalls = 0 => (is_none(bounds.outer) /\ is_none(bounds.inner))

C7_Witness ==
    /\ ncalls = 0
    /\ is_some(region)
    /\ is_some(unwrap(region).image_mask)
    /\ Len(unwrap(region).complex_clips) = 2
    /\ unwrap(region).complex_clips[1] # unwrap(region).complex_clips[2]
    /\ Len(clips) = 4

\* the positions of the Image sources up to position i
ImagesUpTo(i) == { j \in 1..i : IsImage(clips[j]) }

(* C8: every update call on a non-empty source list refreshes the bounds,  *)
(* then calls the mask-parameter builder once with the source list, then   *)
(* requests the image of each Image source once, in list order; on an      *)
(* empty list it calls nothing and leaves the bounds as constructed.       *)
C8_CollaboratorCalls ==
    ncalls > 0
        => IF clips = << >>
           THEN trace = << >> /\ bounds = [outer |-> None, inner |-> None]
           ELSE /\ Len(trace) = 2 + Cardinality(ImagesUpTo(Len(clips)))
                /\ trace[1].call = "MaskBounds::update"
                /\ trace[2] = [call |-> "MaskCacheInfo::update", clips |-> clips]
                /\ \A i \in ImagesUpTo(Len(clips)) :
                     LET c == trace[2 + Cardinality(ImagesUpTo(i))]
                     IN  /\ c.call = "ResourceCache::request_image"
                         /\ c.image = clips[i].mask.image
                /\ is_some(bounds.inner)

C8_Witness ==
    /\ ncalls = 2
    /\ Len(clips) = 2
    /\ IsImage(clips[1]) /\ clips[1].mask.image = 2
    /\ IsImage(clips[2]) /\ clips[2].mask.image = 1
    /\ Len(trace) = 4

(* C9, as stated: for a source list with an Image source and no ClipOut    *)
(* or BorderCorner source, after update inner has zero area and outer is   *)
(* the intersection of the rectangles of the Rectangle, RoundedRectangle   *)
(* and non-repeating Image sources (a repeating mask does not constrain    *)
(* it); a single non-repeating Image source gives its mask rectangle.      *)
C9_ImageBounds ==
    (ncalls > 0 /\ ~HasFallback /\ \E s \in Sources : IsImage(s))
        => /\ is_some(bounds.inner)
           /\ ZeroArea(Inner.local_rect)
           /\ is_some(bounds.outer)
           /\ SameRegion(Outer.local_rect, CommonRect(ConstrainingRects \cup {MaxRect}))
           /\ (Len(clips) = 1 /\ ~clips[1].mask.repeat)
                => Outer.local_rect = clips[1].mask.rect

(* C9, amended: ... a single non-repeating Image source gives its mask     *)
(* rectangle intersected with [-MAX_CLIP, MAX_CLIP] x [-MAX_CLIP, MAX_CLIP]. *)
C9_ImageBoundsClamped ==
    (ncalls > 0 /\ ~HasFallback /\ \E s \in Sources : IsImage(s))
        => /\ is_some(bounds.inner)
           /\ ZeroArea(Inner.local_rect)
           /\ is_some(bounds.outer)
           /\ SameRegion(Outer.local_rect, CommonRect(ConstrainingRects \cup {MaxRect}))
           /\ (Len(clips) = 1 /\ ~clips[1].mask.repeat)
                => SameRegion(Outer.local_rect, CommonRect({clips[1].mask.rect, MaxRect}))

C9_Witness ==
    /\ ncalls > 0
    /\ Len(clips) = 2
    /\ IsImage(clips[1]) /\ ~clips[1].mask.repeat
    /\ clips[2].kind = "Rectangle"
    /\ is_some(bounds.outer)
    /\ ~IsEmptyRect(Outer.local_rect)
    /\ Outer.local_rect # clips[1].mask.rect
    /\ Outer.local_rect # clips[2].rect
    /\ Inner.local_rect = Rect_zero

-----------------------------------------------------------------------------
(* Properties of the recorder model *)

\* a frame file is written only from a descriptor accepted since the last file
\* was written, by a message that found CURRENT_FRAME_NUMBER different from
\* last_frame_written; a descriptor is consumed by one write_payload at most
RecorderWritesOnlyAccepted == ~stale_write

\* finish_write_display_list never unwraps an absent descriptor
RecorderNeverUnwrapsNone == panicked # Some("unwrap")

\* while CURRENT_FRAME_NUMBER keeps its value, one frame file is written at most
RecorderOneFilePerFrameNumber == written_in_frame <= 1

(* C10: a frame file is written only from a SetDisplayList message         *)
(* accepted since the last written file while the current frame number     *)
(* differed from that of the last accepted one; a descriptor is consumed   *)
(* once at most, so while the current frame number stays the same one      *)
(* frame file is written at most; no absent descriptor is unwrapped.       *)
C10_FrameFileOncePerFrameNumber ==
    /\ RecorderWritesOnlyAccepted
    /\ RecorderNeverUnwrapsNone
    /\ RecorderOneFilePerFrameNumber

=============================================================================
